---------------------------- MODULE Spec2Model ----------------------------
(***************************************************************************)
(* The game-state engine of snake.py (class SnakeGame): reset, place_food, *)
(* update and the query functions, as a state machine.  Cells are          *)
(* <<row, col>> pairs, directions are <<drow, dcol>> pairs as in the       *)
(* Direction enum; random.choice is a nondeterministic choice.             *)
(***************************************************************************)
EXTENDS Integers, Sequences, FiniteSets, TLC

VARIABLES width, height,      \* constructor parameters (fixed per game)
          snake,              \* self.snake: sequence of cells, head first
          direction,          \* self.direction
          food_position,      \* self.food_position
          score, game_over, steps,
          op,                 \* name of the last method called
          req,                \* its direction argument (None when absent),
                              \* for handle_events the event queue it read
          branch,             \* the path the last update took
          ret,                \* value returned by the last call
          ticks               \* iterations of an idle play_human loop

vars == <<width, height, snake, direction, food_position, score, game_over,
          steps, op, req, branch, ret, ticks>>

game == <<snake, direction, food_position, score, game_over, steps>>

\* Bounds of the model.
MaxCells == 8
MaxSteps == 5
MaxEvents == 2

---------------------------------------------------------------------------
\* class Direction
RIGHT == <<0, 1>>
DOWN == <<1, 0>>
LEFT == <<0, -1>>
UP == <<-1, 0>>

Directions == {RIGHT, DOWN, LEFT, UP}

\* Python's None / an omitted argument (falsy, like the empty tuple).
None == <<>>

\* Python bool as a number (True == 1), also what dtype=np.float32 stores.
B2N(b) == IF b THEN 1 ELSE 0

Cells(s) == {s[i] : i \in 1..Len(s)}

BoardCells(w, h) == {<<i, j>> : i \in 0..(h - 1), j \in 0..(w - 1)}

---------------------------------------------------------------------------
\* place_food: the cells food_position may hold after the call.
EmptyCells(s, w, h) == BoardCells(w, h) \ Cells(s)

AllCellsMut(s, w, h) == BoardCells(w, h)

FoodCandidates(s, w, h) == EmptyCells(s, w, h)

PlaceFoodAnywhereMut(s, food, w, h) ==
    IF EmptyCells(s, w, h) # {} THEN EmptyCells(s, w, h) ELSE BoardCells(w, h)

place_food(s, food, w, h) ==
    IF FoodCandidates(s, w, h) # {} THEN FoodCandidates(s, w, h) ELSE {food}

\* reset: the initial snake.
InitialSnake(w, h) ==
    <<<<h \div 2, w \div 2>>, <<h \div 2, (w \div 2) - 1>>,
      <<h \div 2, (w \div 2) - 2>>>>

---------------------------------------------------------------------------
\* update, step by step.
is_valid_direction(new_dir, dir) ==
    ~(new_dir[1] = -dir[1] /\ new_dir[2] = -dir[2])

AdoptAlwaysMut(d, dir) == IF d # None THEN d ELSE dir

AdoptDirection(d, dir) ==
    IF d # None /\ is_valid_direction(d, dir) THEN d ELSE dir

NewHeadTypoMut(head, dir) == <<head[1] + dir[1], head[2] + dir[1]>>

NewHead(head, dir) == <<head[1] + dir[1], head[2] + dir[2]>>

HitsWallOffByOneMut(p, w, h) == p[1] < 0 \/ p[1] > h \/ p[2] < 0 \/ p[2] > w

HitsWallLowOnlyMut(p, w, h) == p[1] < 0 \/ p[2] < 0

HitsWall(p, w, h) == p[1] < 0 \/ p[1] >= h \/ p[2] < 0 \/ p[2] >= w

HitsNeckOnlyMut(p, s) == p = s[2]

HitsSelfTailAwareMut(p, s) == p \in Cells(SubSeq(s, 1, Len(s) - 1))

HitsSelf(p, s) == p \in Cells(s)

Insert(p, s) == <<p>> \o s

PopHeadMut(s) == Tail(s)

PopNothingMut(s) == s

Pop(s) == SubSeq(s, 1, Len(s) - 1)

CollideToggleMut(go) == ~go

Collide(go) == TRUE

---------------------------------------------------------------------------
\* numpy indexing: a negative index i on an axis of size n addresses i + n.
NpIndex(i, n) == IF i < 0 THEN i + n ELSE i

NpInRange(i, n) == -n <= i /\ i < n

NpCell(c, w, h) == <<NpIndex(c[1], h), NpIndex(c[2], w)>>

\* get_state: the grid as a function of <<row, col, channel>>.
get_state(s, food, w, h) ==
    LET body == {NpCell(s[i], w, h) : i \in 2..Len(s)}
        head == NpCell(s[1], w, h)
        fd == NpCell(food, w, h)
    IN [x \in BoardCells(w, h) \X (0..2) |->
          IF \/ x[2] = 0 /\ x[1] \in body
             \/ x[2] = 1 /\ x[1] = head
             \/ x[2] = 2 /\ x[1] = fd
          THEN 1 ELSE 0]

\* The grid in row-major order (state.ravel()), the form kept in ret.
Ravel(g, w, h) ==
    LET grid == g
    IN [n \in 1..(h * w * 3) |->
          grid[<<<<(n - 1) \div (3 * w), ((n - 1) \div 3) % w>>,
                 (n - 1) % 3>>]]

\* get_state raises IndexError when a cell is outside the numpy index range,
\* TypeError when food_position is None.
GetStateRaises(s, food, w, h) ==
    \/ food = None
    \/ \E i \in 1..Len(s) : ~NpInRange(s[i][1], h) \/ ~NpInRange(s[i][2], w)

\* __init__ completes iff its reset() does.
Constructible(w, h) ==
    \A f \in place_food(InitialSnake(w, h), None, w, h) :
        ~GetStateRaises(InitialSnake(w, h), f, w, h)

---------------------------------------------------------------------------
\* check_danger and the rotation tables.
CheckDangerTailAwareMut(d, s, w, h) ==
    LET new_pos == NewHead(s[1], d)
    IN HitsWall(new_pos, w, h) \/ HitsSelf(new_pos, SubSeq(s, 1, Len(s) - 1))

check_danger(d, s, w, h) ==
    LET new_pos == NewHead(s[1], d)
    IN HitsWall(new_pos, w, h) \/ HitsSelf(new_pos, s)

RightStuckMut(dir) ==
    IF dir = RIGHT THEN DOWN
    ELSE IF dir = DOWN THEN LEFT
    ELSE IF dir = LEFT THEN UP
    ELSE UP

get_right_direction(dir) ==
    IF dir = RIGHT THEN DOWN
    ELSE IF dir = DOWN THEN LEFT
    ELSE IF dir = LEFT THEN UP
    ELSE RIGHT

get_left_direction(dir) ==
    IF dir = RIGHT THEN UP
    ELSE IF dir = UP THEN LEFT
    ELSE IF dir = LEFT THEN DOWN
    ELSE RIGHT

DangerStateDirUpMut(s, dir, food, w, h) ==
    LET head == s[1]
        food_dir == <<food[1] - head[1], food[2] - head[2]>>
    IN << B2N(check_danger(dir, s, w, h)),
          B2N(check_danger(get_right_direction(dir), s, w, h)),
          B2N(check_danger(get_left_direction(dir), s, w, h)),
          B2N(dir = RIGHT), B2N(dir = DOWN), B2N(dir = LEFT), B2N(dir = DOWN),
          B2N(food_dir[1] < 0), B2N(food_dir[2] > 0),
          B2N(food_dir[1] > 0), B2N(food_dir[2] < 0) >>

get_danger_state(s, dir, food, w, h) ==
    LET head == s[1]
        food_dir == <<food[1] - head[1], food[2] - head[2]>>
    IN << B2N(check_danger(dir, s, w, h)),
          B2N(check_danger(get_right_direction(dir), s, w, h)),
          B2N(check_danger(get_left_direction(dir), s, w, h)),
          B2N(dir = RIGHT), B2N(dir = DOWN), B2N(dir = LEFT), B2N(dir = UP),
          B2N(food_dir[1] < 0), B2N(food_dir[2] > 0),
          B2N(food_dir[1] > 0), B2N(food_dir[2] < 0) >>

---------------------------------------------------------------------------
\* SnakeGame(width, height): the state __init__ leaves, for every board on
\* which the constructor does not raise.
Init ==
    /\ width \in 1..MaxCells
    /\ height \in 1..MaxCells
    /\ width * height <= MaxCells
    /\ Constructible(width, height)
    /\ snake = InitialSnake(width, height)
    /\ direction = RIGHT
    /\ food_position \in place_food(snake, None, width, height)
    /\ score = 0
    /\ game_over = FALSE
    /\ steps = 0
    /\ op = "__init__"
    /\ req = None
    /\ branch = "none"
    /\ ret = None
    /\ ticks = 0

ResetFoodFirstMut ==
    /\ snake' = InitialSnake(width, height)
    /\ direction' = RIGHT
    /\ food_position' \in place_food(snake, food_position, width, height)
    /\ score' = 0
    /\ game_over' = FALSE
    /\ steps' = 0
    /\ op' = "reset"
    /\ req' = None
    /\ branch' = "none"
    /\ ret' = Ravel(get_state(snake', food_position', width, height),
                    width, height)
    /\ UNCHANGED <<width, height, ticks>>

Reset ==
    /\ snake' = InitialSnake(width, height)
    /\ direction' = RIGHT
    /\ food_position' \in place_food(snake', food_position, width, height)
    /\ score' = 0
    /\ game_over' = FALSE
    /\ steps' = 0
    /\ op' = "reset"
    /\ req' = None
    /\ branch' = "none"
    /\ ret' = Ravel(get_state(snake', food_position', width, height),
                    width, height)
    /\ UNCHANGED <<width, height, ticks>>

\* The body of update(direction).
update(d) ==
    /\ op' = "update"
    /\ req' = d
    /\ ret' = None
    /\ UNCHANGED <<width, height>>
    /\ direction' = AdoptDirection(d, direction)
    /\ LET new_head == NewHead(snake[1], direction')
       IN IF HitsWall(new_head, width, height)
          THEN /\ game_over' = Collide(game_over)
               /\ branch' = "wall"
               /\ UNCHANGED <<snake, food_position, score, steps>>
          ELSE IF HitsSelf(new_head, snake)
          THEN /\ game_over' = Collide(game_over)
               /\ branch' = "self"
               /\ UNCHANGED <<snake, food_position, score, steps>>
          ELSE IF new_head = food_position
          THEN /\ snake' = Insert(new_head, snake)
               /\ score' = score + 1
               /\ food_position' \in
                      place_food(snake', food_position, width, height)
               /\ steps' = steps + 1
               /\ branch' = "ate"
               /\ UNCHANGED game_over
          ELSE /\ snake' = Pop(Insert(new_head, snake))
               /\ steps' = steps + 1
               /\ branch' = "moved"
               /\ UNCHANGED <<food_position, score, game_over>>

\* A call of update, while the step counter is within the model's bound.
Update(d) ==
    /\ steps < MaxSteps
    /\ update(d)
    /\ UNCHANGED ticks

\* The query methods: each returns a value and assigns no field.
Query(name, d, value) ==
    /\ op' = name
    /\ req' = d
    /\ branch' = "none"
    /\ ret' = value
    /\ UNCHANGED <<width, height, snake, direction, food_position, score,
                   game_over, steps, ticks>>

GetState ==
    Query("get_state", None,
          Ravel(get_state(snake, food_position, width, height), width, height))

DangerTurnsMut ==
    /\ op' = "get_danger_state"
    /\ req' = None
    /\ branch' = "none"
    /\ direction' = get_right_direction(direction)
    /\ ret' = get_danger_state(snake, direction', food_position, width, height)
    /\ UNCHANGED <<width, height, snake, food_position, score, game_over,
                   steps, ticks>>

GetDangerState ==
    Query("get_danger_state", None,
          get_danger_state(snake, direction, food_position, width, height))

CheckDanger(d) ==
    Query("check_danger", d, <<B2N(check_danger(d, snake, width, height))>>)

GetRightDirection ==
    Query("get_right_direction", None, get_right_direction(direction))

GetLeftDirection ==
    Query("get_left_direction", None, get_left_direction(direction))

IsValidDirection(d) ==
    Query("is_valid_direction", d, <<B2N(is_valid_direction(d, direction))>>)

Next ==
    \/ Reset
    \/ \E d \in Directions \cup {None} : Update(d)
    \/ GetState
    \/ GetDangerState
    \/ \E d \in Directions : CheckDanger(d)
    \/ GetRightDirection
    \/ GetLeftDirection
    \/ \E d \in Directions : IsValidDirection(d)

Spec == Init /\ [][Next]_vars

---------------------------------------------------------------------------
\* handle_events: the events of the pygame queue, by kind.  OtherEvent is any
\* event that is neither QUIT nor the KEYDOWN of an arrow key.
QUIT == 0
K_RIGHT == 1
K_DOWN == 2
K_LEFT == 3
K_UP == 4
OtherEvent == 5

Events == {QUIT, K_RIGHT, K_DOWN, K_LEFT, K_UP, OtherEvent}

Queues == UNION {[1..n -> Events] : n \in 0..MaxEvents}

\* One pass of the loop body on a KEYDOWN: the new value of new_direction.
KeyDown(key, dir, new_direction) ==
    IF key = K_RIGHT /\ dir # LEFT THEN RIGHT
    ELSE IF key = K_DOWN /\ dir # UP THEN DOWN
    ELSE IF key = K_LEFT /\ dir # RIGHT THEN LEFT
    ELSE IF key = K_UP /\ dir # DOWN THEN UP
    ELSE new_direction

RECURSIVE ScanRunningMut(_, _, _, _)
ScanRunningMut(q, i, dir, new_direction) ==
    IF i > Len(q) THEN new_direction
    ELSE ScanRunningMut(q, i + 1, dir,
             KeyDown(q[i], IF new_direction # None THEN new_direction
                           ELSE dir, new_direction))

RECURSIVE ScanEvents(_, _, _, _)
ScanEvents(q, i, dir, new_direction) ==
    IF i > Len(q) THEN new_direction
    ELSE ScanEvents(q, i + 1, dir, KeyDown(q[i], dir, new_direction))

NewDirectionRunningMut(q, dir) == ScanRunningMut(q, 1, dir, None)

\* new_direction when the for loop ends (no QUIT in the queue).
NewDirection(q, dir) == ScanEvents(q, 1, dir, None)

\* handle_events on queue q: a QUIT event ends the process inside the loop,
\* before the assignment to self.direction.
HandleEvents(q) ==
    /\ op \in {"__init__", "render"}
    /\ ~game_over
    /\ req' = q
    /\ branch' = "none"
    /\ ret' = None
    /\ IF \E i \in 1..Len(q) : q[i] = QUIT
       THEN op' = "exit" /\ UNCHANGED direction
       ELSE /\ op' = "handle_events"
            /\ direction' = IF NewDirection(q, direction) # None
                            THEN NewDirection(q, direction)
                            ELSE direction
    /\ UNCHANGED <<width, height, snake, food_position, score, game_over,
                   steps, ticks>>

\* render draws and assigns no field of the game.
Render ==
    /\ op = "update"
    /\ op' = "render"
    /\ req' = None
    /\ branch' = "none"
    /\ ret' = None
    /\ UNCHANGED <<width, height, snake, direction, food_position, score,
                   game_over, steps, ticks>>

\* play_human on a new game: while not game_over: handle_events(); update();
\* render().  op holds the position in the loop.
PlayUpdate == op = "handle_events" /\ Update(None)

NextHuman ==
    \/ \E q \in Queues : HandleEvents(q)
    \/ PlayUpdate
    \/ Render

SpecHuman == Init /\ [][NextHuman]_vars

\* One iteration of the play_human loop with an empty event queue:
\* handle_events and render assign nothing, update() is called with no
\* requested direction.
IdleTick ==
    /\ ~game_over
    /\ update(None)
    /\ ticks' = ticks + 1

\* Any sequence of reset and update calls, then the idle loop; the loop runs
\* as long as its test `not self.game_over` holds.
NextIdle ==
    \/ ticks = 0 /\ Reset
    \/ ticks = 0 /\ \E d \in Directions \cup {None} : Update(d)
    \/ IdleTick

SpecIdle == Init /\ [][NextIdle]_vars /\ WF_vars(IdleTick)

---------------------------------------------------------------------------
\* Notions used by the properties, stated without the operators of update.
Opposite(d) == <<-d[1], -d[2]>>

OnBoard(c) == c[1] >= 0 /\ c[1] < height /\ c[2] >= 0 /\ c[2] < width

Step(c, d) == <<c[1] + d[1], c[2] + d[2]>>

\* The head an update call aims at, once it has settled the heading.
Target == Step(snake[1], direction')

Collides == ~OnBoard(Target) \/ \E i \in 1..Len(snake) : snake[i] = Target

BoardFull == \A c \in BoardCells(width, height) : \E i \in 1..Len(snake) : snake[i] = c

QueryNames == {"get_state", "get_danger_state", "check_danger",
               "get_right_direction", "get_left_direction",
               "is_valid_direction"}

\* C1: in every reachable state the cells of the snake are pairwise
\* distinct.
C1_SnakeCellsDistinct ==
    \A i, j \in 1..Len(snake) : i # j => snake[i] # snake[j]

\* An update that ran into the body of a snake of length 5 or more.
C1_Witness == op = "update" /\ branch = "self" /\ Len(snake) >= 5

\* C2 as stated: on every board with width * height >= 4 the food cell is
\* never a snake cell, also after the snake has eaten the last empty cell.
C2_FoodNeverOnSnake ==
    width * height >= 4 => \A i \in 1..Len(snake) : snake[i] # food_position

\* C2 amended: while some board cell is free of the snake the food cell is
\* not a snake cell; once the snake covers the board the food stays on the
\* cell eaten last, which is the head.
C2_FoodOffSnakeUnlessFull ==
    width * height >= 4 =>
        IF BoardFull THEN food_position = snake[1]
        ELSE \A i \in 1..Len(snake) : snake[i] # food_position

\* place_food has run after an eating update and found an empty cell.
C2_Witness ==
    /\ width * height >= 4
    /\ op = "update" /\ branch = "ate"
    /\ ~BoardFull
    /\ Len(snake) >= 5

\* C3: an update that does not collide keeps length and score when the new
\* head is not the food cell (head prepended, tail removed), and raises both
\* by exactly 1, keeping the old tail, when it is.
C3_GrowthOnlyOnFood ==
    [][(op' = "update" /\ ~Collides) =>
          IF Target = food_position
          THEN /\ snake' = <<Target>> \o snake
               /\ Len(snake') = Len(snake) + 1
               /\ score' = score + 1
          ELSE /\ snake' = <<Target>> \o SubSeq(snake, 1, Len(snake) - 1)
               /\ Len(snake') = Len(snake)
               /\ score' = score]_vars

\* The second eating update of a game.
C3_Witness ==
    op = "update" /\ branch = "ate" /\ score = 2 /\ Len(snake) = 5

\* C4: update(d), d one of the four directions, keeps the heading when d is
\* its exact reverse and sets it to d otherwise, collision or not; a head
\* that moves, moves one step along the resulting heading.
C4_ReverseRejected ==
    [][(op' = "update" /\ req' \in Directions) =>
          /\ direction' = IF req' = Opposite(direction) THEN direction
                          ELSE req'
          /\ snake'[1] # snake[1] => snake'[1] = Step(snake[1], direction')
          /\ snake'[1] # Step(snake[1], Opposite(direction))]_vars

\* An update that was asked for the reverse of the heading and moved on.
C4_Witness ==
    /\ op = "update" /\ req = Opposite(direction)
    /\ branch = "moved"

\* C5: reset() leaves the three-cell snake at the centre row, heading
\* RIGHT, score 0, steps 0, game_over false, and the food on a board cell
\* the new snake does not occupy.
C5_ResetState ==
    op = "reset" =>
        /\ snake = << <<height \div 2, width \div 2>>,
                      <<height \div 2, (width \div 2) - 1>>,
                      <<height \div 2, (width \div 2) - 2>> >>
        /\ direction = RIGHT
        /\ score = 0
        /\ steps = 0
        /\ game_over = FALSE
        /\ OnBoard(food_position)
        /\ \A i \in 1..Len(snake) : snake[i] # food_position

\* reset() has returned, on a board where the food has several free cells
\* to land on and did not land next to the head.
C5_Witness ==
    /\ op = "reset"
    /\ width >= 4 /\ height >= 2
    /\ food_position # Step(snake[1], RIGHT)

\* C6: once game_over is true no update call makes it false; only reset()
\* clears it.
C6_GameOverMonotonic ==
    [][(game_over /\ op' # "reset") => game_over']_vars

\* An update that moved the snake although the game was over before it.
C6_Witness ==
    game_over /\ op = "update" /\ branch = "moved" /\ req # None

\* C7 as stated: in a state with game_over true every update call leaves
\* snake, direction, food_position, score and steps unchanged.
C7_NoMutationAfterGameOver ==
    [][(game_over /\ op' = "update") =>
          UNCHANGED <<snake, direction, food_position, score, steps>>]_vars

\* C7 amended: in a state with game_over true, an update call whose new
\* head is off the board or on a snake cell leaves snake, food_position,
\* score and steps unchanged, and a call without a requested direction
\* leaves the heading unchanged; update does not test game_over, so a call
\* whose new head is a free board cell moves the snake there and counts the
\* step, and game_over stays true.
C7_AfterGameOver ==
    [][(game_over /\ op' = "update") =>
          /\ game_over'
          /\ req' = None => direction' = direction
          /\ IF Collides
             THEN UNCHANGED <<snake, food_position, score, steps>>
             ELSE snake'[1] = Target /\ steps' = steps + 1]_vars

\* An update that ate although the game was over before it.
C7_Witness ==
    game_over /\ op = "update" /\ branch = "ate"

\* C8: the query methods leave snake, direction, food_position, score,
\* steps and game_over unchanged, and a get_danger_state() call that follows
\* another one directly returns the same vector.
C8_QueriesArePure ==
    [][/\ op' \in QueryNames => UNCHANGED game
       /\ (op = "get_danger_state" /\ op' = "get_danger_state")
              => ret' = ret]_vars

\* get_danger_state() has returned a vector that reports danger ahead in a
\* game that is still running.
C8_Witness ==
    /\ op = "get_danger_state"
    /\ Len(ret) = 11
    /\ ret[1] = 1
    /\ ~game_over

\* C9: get_right_direction() follows RIGHT -> DOWN -> LEFT -> UP -> RIGHT,
\* get_left_direction() the reverse cycle; right then left, left then right
\* and four right turns give the heading back, and neither returns the
\* heading or its reverse.
RightCycle == <<RIGHT, DOWN, LEFT, UP>>

CycleIndex(d) == CHOOSE i \in 1..4 : RightCycle[i] = d

C9_RotationTables ==
    LET i == CycleIndex(direction)
        r == get_right_direction(direction)
        l == get_left_direction(direction)
    IN /\ r = RightCycle[(i % 4) + 1]
       /\ l = RightCycle[((i + 2) % 4) + 1]
       /\ get_left_direction(r) = direction
       /\ get_right_direction(l) = direction
       /\ get_right_direction(get_right_direction(
              get_right_direction(r))) = direction
       /\ r \notin {direction, Opposite(direction)}
       /\ l \notin {direction, Opposite(direction)}
       /\ op = "get_right_direction" => ret = r
       /\ op = "get_left_direction" => ret = l

\* get_right_direction() called while heading UP (the table's last case).
C9_Witness ==
    op = "get_right_direction" /\ direction = UP /\ ret = RIGHT

\* C10: get_state() marks channel 0 exactly on the snake cells other than
\* the head, channel 1 exactly on the head cell, channel 2 exactly on the
\* food cell, and no cell in more than one channel.
C10_GridEncoding ==
    LET g == get_state(snake, food_position, width, height)
    IN \A c \in BoardCells(width, height) :
          /\ g[<<c, 0>>] = 1 <=> \E i \in 2..Len(snake) : snake[i] = c
          /\ g[<<c, 1>>] = 1 <=> c = snake[1]
          /\ g[<<c, 2>>] = 1 <=> c = food_position
          /\ g[<<c, 0>>] + g[<<c, 1>>] + g[<<c, 2>>] <= 1

\* C11: exactly one of the flags dir_right, dir_down, dir_left, dir_up of
\* get_danger_state() is set, the one of the current direction.
C11_DirectionOneHot ==
    LET v == get_danger_state(snake, direction, food_position, width, height)
    IN /\ v[4] + v[5] + v[6] + v[7] = 1
       /\ v[4] = 1 <=> direction = RIGHT
       /\ v[5] = 1 <=> direction = DOWN
       /\ v[6] = 1 <=> direction = LEFT
       /\ v[7] = 1 <=> direction = UP
       /\ op = "get_danger_state" => ret = v

\* get_danger_state() has returned dir_up while heading UP.
C11_Witness ==
    op = "get_danger_state" /\ direction = UP /\ ret[7] = 1 /\ steps >= 1

\* C12: an update whose new head is off the board or on a snake cell (the
\* tail cell included) sets game_over and leaves snake, food_position,
\* score and steps as they were.
C12_CollisionHalts ==
    [][(op' = "update" /\ Collides) =>
          /\ game_over'
          /\ UNCHANGED <<snake, food_position, score, steps>>]_vars

\* An update that aimed at the cell held by the tail.
C12_Witness ==
    /\ op = "update" /\ branch = "self"
    /\ Step(snake[1], direction) = snake[Len(snake)]

\* C13 as stated: on every board with width * height >= 4 every snake cell
\* and the food cell are on the board.
C13_AllCellsOnBoard ==
    width * height >= 4 =>
        /\ \A i \in 1..Len(snake) : OnBoard(snake[i])
        /\ OnBoard(food_position)

\* C14: consecutive snake cells differ by one of the four unit direction
\* vectors, and the snake has at least one cell.
C14_ConnectedPath ==
    /\ Len(snake) >= 1
    /\ \A i \in 1..(Len(snake) - 1) :
          \E d \in Directions : snake[i] = Step(snake[i + 1], d)

\* A grown snake that has moved and bends.
C14_Witness ==
    /\ op = "update" /\ branch = "moved"
    /\ Len(snake) >= 4
    /\ snake[1][1] # snake[Len(snake)][1]
    /\ snake[1][2] # snake[Len(snake)][2]

\* C15: when update eats the food on the last empty cell, food_position is
\* left as it was, game_over is not set on that tick, and score and steps
\* are both incremented.
C15_LastCellEaten ==
    [][(/\ op' = "update"
        /\ ~Collides
        /\ Target = food_position
        /\ \A c \in BoardCells(width, height) :
              c = Target \/ \E i \in 1..Len(snake) : snake[i] = c) =>
          /\ food_position' = food_position
          /\ game_over' = game_over
          /\ ~game_over => ~game_over'
          /\ score' = score + 1
          /\ steps' = steps + 1]_vars

\* The snake has just eaten its way to covering the board, game running.
C15_Witness ==
    op = "update" /\ branch = "ate" /\ BoardFull /\ ~game_over

\* C17: len(snake) = 3 + score and steps >= score in every state; steps
\* counts the update calls since the last reset that did not collide.
C17_LengthScoreSteps ==
    /\ [](Len(snake) = 3 + score /\ steps >= score)
    /\ [][/\ op' = "reset" => steps' = 0
          /\ (op' = "update" /\ ~Collides) => steps' = steps + 1
          /\ (op' = "update" /\ Collides) => steps' = steps]_vars

\* A game with moves that ate and moves that did not.
C17_Witness ==
    op = "update" /\ score >= 1 /\ steps > score /\ Len(snake) = 3 + score

\* C18: while game_over is false, for d the current direction, the right
\* turn or the left turn, check_danger(d) is true iff update(d) sets
\* game_over; a move into the tail cell is reported and ends the game.
C18_DangerPredictsUpdate ==
    [][(/\ ~game_over
        /\ op' = "update"
        /\ req' \in {direction, get_right_direction(direction),
                     get_left_direction(direction)}) =>
          (game_over' <=> check_danger(req', snake, width, height))]_vars

\* check_danger has reported the tail cell as danger in a running game.
C18_Witness ==
    /\ op = "check_danger" /\ ret = <<1>>
    /\ ~game_over
    /\ req \in {direction, get_right_direction(direction),
                get_left_direction(direction)}
    /\ Step(snake[1], req) = snake[Len(snake)]

\* The direction the last accepted arrow key of queue q stands for, each key
\* tested against dir; None when no key is accepted.
KeyDir(k) ==
    IF k = K_RIGHT THEN RIGHT ELSE IF k = K_DOWN THEN DOWN
    ELSE IF k = K_LEFT THEN LEFT ELSE UP

AcceptedAt(q, dir) ==
    {i \in 1..Len(q) : /\ q[i] \in {K_RIGHT, K_DOWN, K_LEFT, K_UP}
                       /\ KeyDir(q[i]) # Opposite(dir)}

LastAccepted(q, dir) ==
    IF AcceptedAt(q, dir) = {} THEN dir
    ELSE KeyDir(q[CHOOSE i \in AcceptedAt(q, dir) :
                      \A j \in AcceptedAt(q, dir) : j <= i])

\* C16: after one handle_events() call the direction is never the reverse of
\* the direction before it; every key is tested against the direction held
\* before the call and the last accepted key gives the new direction; in
\* play_human the cell ahead of the head is never the cell right behind it
\* (the second snake cell), so no tick turns the snake by 180 degrees.
C16_NoReverseByEvents ==
    /\ [][op' \in {"handle_events", "exit"} =>
            /\ direction' # Opposite(direction)
            /\ op' = "handle_events" =>
                   direction' = LastAccepted(req', direction)
            /\ op' = "exit" => direction' = direction]_vars
    /\ [](Step(snake[1], direction) # snake[2])

\* handle_events turned the snake on the first key of its queue and rejected
\* the second, the reverse of the heading the call began with.
C16_Witness ==
    LET moved == <<snake[1][1] - snake[2][1], snake[1][2] - snake[2][2]>>
    IN /\ op = "handle_events"
       /\ steps >= 1
       /\ Len(req) = 2
       /\ req[1] \in {K_RIGHT, K_DOWN, K_LEFT, K_UP}
       /\ req[2] \in {K_RIGHT, K_DOWN, K_LEFT, K_UP}
       /\ KeyDir(req[1]) = direction
       /\ direction # moved
       /\ KeyDir(req[2]) = Opposite(moved)

Longest == IF width >= height THEN width ELSE height

\* C19: the idle play_human loop (update() with no requested direction,
\* from any state reached by reset and update calls in which game_over is
\* false) sets game_over after at most max(width, height) ticks.
C19_IdleLoopEnds ==
    /\ [](ticks <= Longest)
    /\ (ticks >= 1) ~> game_over

\* The idle loop ran for three ticks and ended the game.
C19_Witness ==
    ticks >= 3 /\ game_over /\ steps >= 4

===========================================================================
